---- MODULE Spec2Model ----
(***************************************************************************)
(* A model of lumol's `System` (lumol-core/src/sys/system.rs): the         *)
(* particle-kind registry, the registration and lookup of potentials, the  *)
(* externally imposed temperature, the composition, the degrees of         *)
(* freedom, the energy cache used by the Monte Carlo moves, the pair       *)
(* restrictions, and the reading of the cell from the input file.          *)
(*                                                                         *)
(* Particle indexes are 1-based here (0-based in the source).              *)
(***************************************************************************)
EXTENDS Integers, Sequences, FiniteSets, TLC

(***************************************************************************)
(* f64 values.  A value is <<"num", n>> (the finite number n), <<"inf", 0>>*)
(* (+infinity), <<"ninf", 0>> (-infinity) or <<"nan", 0>>.  Comparisons    *)
(* with NaN are false, as in IEEE 754.                                     *)
(***************************************************************************)
Num(n) == <<"num", n>>
PosInf == <<"inf", 0>>
NegInf == <<"ninf", 0>>
NaN == <<"nan", 0>>
NoneF == <<"none", 0>>

IsNum(x) == x[1] = "num"
IsNaN(x) == x[1] = "nan"

\* a < b on f64
Lt(a, b) ==
    IF IsNaN(a) \/ IsNaN(b) THEN FALSE
    ELSE IF a[1] = "inf" \/ b[1] = "ninf" THEN FALSE
    ELSE IF a[1] = "ninf" \/ b[1] = "inf" THEN TRUE
    ELSE a[2] < b[2]

\* a >= b on f64
Gt(a, b) ==
    IF IsNaN(a) \/ IsNaN(b) THEN FALSE
    ELSE a # b /\ ~Lt(a, b)
Ge(a, b) ==
    IF IsNaN(a) \/ IsNaN(b) THEN FALSE
    ELSE ~Lt(a, b)

\* 0.5 * d on f64; the finite cell lengths of the model are even, so the
\* product is exact
Half(d) == IF IsNum(d) THEN Num(d[2] \div 2) ELSE d

(***************************************************************************)
(* Bounds of the model                                                     *)
(***************************************************************************)
MaxCutoff == 2
MaxParticles == 2
MaxPotentials == 1
MaxGlobals == 1

Names == {"A", "B", "C"}

\* the lengths a cell can have along one axis
CellLengths == {Num(2), Num(4)}
\* the cutoffs a pair potential can report
Cutoffs == {Num(n) : n \in 0..MaxCutoff} \cup {PosInf, NaN}
\* what CoulombicPotential::cutoff() can report: None or Some(cutoff)
CoulombCutoffs == Cutoffs \cup {NoneF}
\* the bonded potentials are opaque boxes
BondedPotentials == {"harmonic"}
GlobalPotentials == {"global"}

\* the molecules add_molecule can be given: the names of their one or two
\* particles
RECURSIVE SeqsUpTo(_, _)
SeqsUpTo(S, n) ==
    IF n = 0 THEN {<<>>}
    ELSE LET shorter == SeqsUpTo(S, n - 1)
         IN shorter \cup {Append(s, x) : s \in {t \in shorter : Len(t) = n - 1}, x \in S}
Molecules(S) == SeqsUpTo(S, 2) \ {<<>>}

VARIABLES
    cell,        \* configuration.cell, as the vector cell.lengths() returns
    particles,   \* configuration particles: sequence of [name, kind]
    positions,   \* configuration particles: their positions, on a line
    molecules,   \* configuration molecules: the particle indexes of each
    kinds,       \* System::kinds, name -> ParticleKind
    pairs,       \* interactions.pairs, sorted kind pair -> list of potentials
    bonds,       \* interactions.bonds
    angles,      \* interactions.angles
    dihedrals,   \* interactions.dihedrals
    coulomb,     \* interactions.coulomb: NoneF or the installed potential
    globals,     \* interactions.globals
    passed,      \* history: the distinct names of the calls so far, in order
    assigned,    \* history: the distinct names given to get_kind, in order
    last,        \* history: the last call and whether it panicked
    seen,        \* the messages the warn_once! call sites have logged already
    emitted,     \* the log: message -> number of times it was written
    returned,    \* the list the last *_potentials lookup returned
    external_temperature,  \* System::external_temperature: NoneF or Some(t)
    accepted,    \* history: the argument of the last simulated_temperature
                 \* call that returned
    cache,       \* EnergyCache: whether init ran, and the stored energies
    pending,     \* EnergyCache: the last cost query, its result and the change
                 \* of the stored energies an update will apply
    saved,       \* the driver's copy of the positions before a rigid move of
                 \* all molecules, <<>> when there is none
    simulated_degrees_of_freedom,  \* System::simulated_degrees_of_freedom
    topology,    \* the bonds between the particles and the pair restriction
                 \* of the potential
    config,      \* Input::config, the TOML document of the input file
    asked,       \* the last query of a function and its arguments
    answer       \* what that query returned

\* what the registration methods leave alone
lookupVars == <<seen, emitted, returned>>
tempVars == <<external_temperature, accepted>>
cacheVars == <<cache, pending, saved>>
queryVars == <<simulated_degrees_of_freedom, topology, config, asked, answer>>
otherVars == <<lookupVars, tempVars, cacheVars, queryVars>>
\* what the lookups and the accessors leave alone
systemVars == <<cell, particles, positions, molecules, kinds, pairs, bonds, angles,
                dihedrals, coulomb, globals, passed, assigned>>

vars == <<systemVars, last, otherVars>>

(***************************************************************************)
(* System::get_kind                                                        *)
(***************************************************************************)
Size(map) == Cardinality(DOMAIN map)

\* the map after get_kind(name): a name already there keeps its kind, a new
\* one gets ParticleKind(kinds.len())
GetKindReassign(map, name) ==
    [n \in DOMAIN map \cup {name} |-> IF n = name THEN Size(map) ELSE map[n]]
GetKindOffByOne(map, name) ==
    IF name \in DOMAIN map THEN map
    ELSE [n \in DOMAIN map \cup {name} |-> IF n = name THEN Size(map) + 1 ELSE map[n]]
get_kind(map, name) ==
    IF name \in DOMAIN map THEN map
    ELSE [n \in DOMAIN map \cup {name} |-> IF n = name THEN Size(map) ELSE map[n]]

\* the map after get_kind on each name of a sequence, in order
RECURSIVE get_kinds(_, _)
get_kinds(map, names) ==
    IF names = <<>> THEN map
    ELSE get_kinds(get_kind(map, Head(names)), Tail(names))

\* history: names appended to an order of first sight
RECURSIVE FirstSight(_, _)
FirstSight(order, names) ==
    IF names = <<>> THEN order
    ELSE LET n == Head(names)
         IN FirstSight(IF \E i \in DOMAIN order : order[i] = n THEN order
                       ELSE Append(order, n), Tail(names))

(***************************************************************************)
(* Interactions: the registries are keyed by canonicalized kind tuples     *)
(***************************************************************************)
Reverse(t) == [i \in 1..Len(t) |-> t[Len(t) + 1 - i]]

RECURSIVE LexLe(_, _)
LexLe(s, t) ==
    IF s = <<>> THEN TRUE
    ELSE IF Head(s) # Head(t) THEN Head(s) < Head(t)
    ELSE LexLe(Tail(s), Tail(t))

\* the kind tuple under which a tuple and its reverse are both stored
SortKinds(t) == IF LexLe(t, Reverse(t)) THEN t ELSE Reverse(t)

\* the list registered for a kind tuple, empty when there is none
Registered(registry, key) ==
    IF SortKinds(key) \in DOMAIN registry THEN registry[SortKinds(key)] ELSE <<>>

\* the registry after pushing a potential on the list of a kind tuple
AddTo(registry, key, potential) ==
    LET k == SortKinds(key)
    IN [x \in DOMAIN registry \cup {k} |->
            IF x = k THEN Append(Registered(registry, k), potential) ELSE registry[x]]

RECURSIVE SumLen(_, _)
SumLen(registry, keys) ==
    IF keys = {} THEN 0
    ELSE LET k == CHOOSE x \in keys : TRUE
         IN Len(registry[k]) + SumLen(registry, keys \ {k})
Count(registry) == SumLen(registry, DOMAIN registry)
NbPotentials == Count(pairs) + Count(bonds) + Count(angles) + Count(dihedrals)

Empty == <<>>
NoCoulomb == [some |-> FALSE, cutoff |-> NoneF]
Call(op, panicked) == [op |-> op, panicked |-> panicked]

\* the cutoff check of add_pair_potential and set_coulomb_potential:
\* cell.lengths().iter().any(|&d| 0.5 * d < cutoff)
CutoffCheckLe(lengths, cutoff) ==
    \E a \in 1..3 : Lt(Half(lengths[a]), cutoff) \/ Half(lengths[a]) = cutoff
CutoffCheckAll(lengths, cutoff) ==
    \A a \in 1..3 : Lt(Half(lengths[a]), cutoff)
CutoffCheck(lengths, cutoff) ==
    \E a \in 1..3 : Lt(Half(lengths[a]), cutoff)

\* the kind get_kind(name) returns
KindOf(map, name) == get_kind(map, name)[name]

\* the particles of a molecule with their kinds set by add_molecule
RECURSIVE SetKinds(_, _)
SetKinds(map, names) ==
    IF names = <<>> THEN <<>>
    ELSE <<[name |-> Head(names), kind |-> KindOf(map, Head(names))]>>
            \o SetKinds(get_kind(map, Head(names)), Tail(names))

\* the kinds of a tuple of names, each from get_kind in order
RECURSIVE KindsOf(_, _)
KindsOf(map, names) ==
    IF names = <<>> THEN <<>>
    ELSE <<KindOf(map, Head(names))>> \o KindsOf(get_kind(map, Head(names)), Tail(names))

\* DegreesOfFreedom
Particles == <<"Particles", 0>>
MoleculesRigid == <<"Molecules", 0>>
Frozen(f) == <<"Frozen", f>>

\* Result and Option
Ok(v) == <<"Ok", v>>
Err(message) == <<"Err", message>>
None == <<"None">>
Some(v) == <<"Some", v>>

\* an input file without any key
NoConfig == [systems |-> <<"missing">>]

\* no bond and no restriction
NoTopology == [restriction |-> "None", bonds |-> {}]

\* EnergyCache::new(): nothing stored yet
EmptyCache == [initialized |-> FALSE, pairs |-> 0, intra |-> 0, bonded |-> 0, global |-> 0]
\* no cost query to commit
NoPending == [kind |-> "none", positions |-> <<>>, cost |-> 0,
              pairs |-> 0, intra |-> 0, bonded |-> 0, global |-> 0]

\* a system just built by System::with_cell(cell)
with_cell(lengths) ==
    /\ cell = lengths
    /\ particles = <<>>
    /\ positions = <<>>
    /\ molecules = <<>>
    /\ kinds = Empty
    /\ pairs = Empty
    /\ bonds = Empty
    /\ angles = Empty
    /\ dihedrals = Empty
    /\ coulomb = NoCoulomb
    /\ globals = <<>>
    /\ passed = <<>>
    /\ assigned = <<>>
    /\ last = Call("new", FALSE)
    /\ seen = {}
    /\ emitted = Empty
    /\ returned = <<>>
    /\ external_temperature = NoneF
    /\ accepted = NoneF
    /\ cache = EmptyCache
    /\ pending = NoPending
    /\ saved = <<>>
    /\ simulated_degrees_of_freedom = Particles
    /\ topology = NoTopology
    /\ config = NoConfig
    /\ asked = <<>>
    /\ answer = <<>>

\* the cubic cell of the largest length of the model
LargeCell == <<Num(4), Num(4), Num(4)>>

Init == with_cell(LargeCell)

(***************************************************************************)
(* System::add_molecule                                                    *)
(***************************************************************************)
add_molecule(names) ==
    /\ Len(particles) + Len(names) <= MaxParticles
    /\ kinds' = get_kinds(kinds, names)
    /\ particles' = particles \o SetKinds(kinds, names)
    /\ positions' = positions \o [i \in 1..Len(names) |-> 0]
    /\ molecules' = Append(molecules, [i \in 1..Len(names) |-> Len(particles) + i])
    /\ passed' = FirstSight(passed, names)
    /\ assigned' = FirstSight(assigned, names)
    /\ last' = Call("add_molecule", FALSE)
    /\ UNCHANGED <<cell, pairs, bonds, angles, dihedrals, coulomb, globals,
                   otherVars>>

(***************************************************************************)
(* System::add_pair_potential, with its panic on a cutoff too large        *)
(***************************************************************************)
\* a registration that asks for the kinds before it tests the cutoff
add_pair_potential_kinds_first(names, potential) ==
    IF CutoffCheck(cell, potential.cutoff)
    THEN /\ kinds' = get_kinds(kinds, names)
         /\ passed' = FirstSight(passed, names)
         /\ assigned' = FirstSight(assigned, names)
         /\ last' = Call("add_pair_potential", TRUE)
         /\ UNCHANGED <<cell, particles, positions, molecules, pairs, bonds, angles,
                        dihedrals, coulomb, globals, otherVars>>
    ELSE /\ NbPotentials < MaxPotentials
         /\ kinds' = get_kinds(kinds, names)
         /\ pairs' = AddTo(pairs, KindsOf(kinds, names), potential)
         /\ passed' = FirstSight(passed, names)
         /\ assigned' = FirstSight(assigned, names)
         /\ last' = Call("add_pair_potential", FALSE)
         /\ UNCHANGED <<cell, particles, positions, molecules, bonds, angles, dihedrals,
                        coulomb, globals, otherVars>>

add_pair_potential(names, potential) ==
    IF CutoffCheck(cell, potential.cutoff)
    THEN /\ passed' = FirstSight(passed, names)
         /\ last' = Call("add_pair_potential", TRUE)
         /\ UNCHANGED <<cell, particles, positions, molecules, kinds, pairs, bonds, angles, dihedrals,
                        coulomb, globals, assigned, otherVars>>
    ELSE /\ NbPotentials < MaxPotentials
         /\ kinds' = get_kinds(kinds, names)
         /\ pairs' = AddTo(pairs, KindsOf(kinds, names), potential)
         /\ passed' = FirstSight(passed, names)
         /\ assigned' = FirstSight(assigned, names)
         /\ last' = Call("add_pair_potential", FALSE)
         /\ UNCHANGED <<cell, particles, positions, molecules, bonds, angles, dihedrals, coulomb, globals,
                   otherVars>>

(***************************************************************************)
(* System::add_bond_potential, add_angle_potential, add_dihedral_potential *)
(***************************************************************************)
add_bond_potential(names, potential) ==
    /\ NbPotentials < MaxPotentials
    /\ kinds' = get_kinds(kinds, names)
    /\ bonds' = AddTo(bonds, KindsOf(kinds, names), potential)
    /\ passed' = FirstSight(passed, names)
    /\ assigned' = FirstSight(assigned, names)
    /\ last' = Call("add_bond_potential", FALSE)
    /\ UNCHANGED <<cell, particles, positions, molecules, pairs, angles, dihedrals, coulomb, globals,
                   otherVars>>

add_angle_potential(names, potential) ==
    /\ NbPotentials < MaxPotentials
    /\ kinds' = get_kinds(kinds, names)
    /\ angles' = AddTo(angles, KindsOf(kinds, names), potential)
    /\ passed' = FirstSight(passed, names)
    /\ assigned' = FirstSight(assigned, names)
    /\ last' = Call("add_angle_potential", FALSE)
    /\ UNCHANGED <<cell, particles, positions, molecules, pairs, bonds, dihedrals, coulomb, globals,
                   otherVars>>

add_dihedral_potential(names, potential) ==
    /\ NbPotentials < MaxPotentials
    /\ kinds' = get_kinds(kinds, names)
    /\ dihedrals' = AddTo(dihedrals, KindsOf(kinds, names), potential)
    /\ passed' = FirstSight(passed, names)
    /\ assigned' = FirstSight(assigned, names)
    /\ last' = Call("add_dihedral_potential", FALSE)
    /\ UNCHANGED <<cell, particles, positions, molecules, pairs, bonds, angles, coulomb, globals,
                   otherVars>>

(***************************************************************************)
(* System::set_coulomb_potential and add_global_potential                  *)
(***************************************************************************)
set_coulomb_potential(potential) ==
    IF potential.cutoff # NoneF /\ CutoffCheck(cell, potential.cutoff)
    THEN /\ last' = Call("set_coulomb_potential", TRUE)
         /\ UNCHANGED <<cell, particles, positions, molecules, kinds, pairs, bonds, angles, dihedrals,
                        coulomb, globals, passed, assigned, otherVars>>
    ELSE /\ coulomb' = [some |-> TRUE, cutoff |-> potential.cutoff]
         /\ last' = Call("set_coulomb_potential", FALSE)
         /\ UNCHANGED <<cell, particles, positions, molecules, kinds, pairs, bonds, angles, dihedrals,
                        globals, passed, assigned, otherVars>>

\* a global potential that also takes the coulombic slot
add_global_potential_as_coulomb(potential) ==
    /\ Len(globals) < MaxGlobals
    /\ globals' = Append(globals, potential)
    /\ coulomb' = [some |-> TRUE, cutoff |-> NoneF]
    /\ last' = Call("add_global_potential", FALSE)
    /\ UNCHANGED <<cell, particles, positions, molecules, kinds, pairs, bonds, angles,
                   dihedrals, passed, assigned, otherVars>>

\* System::coulomb_potential: the installed potential, if any
coulomb_potential == IF coulomb.some THEN Some([cutoff |-> coulomb.cutoff]) ELSE None

add_global_potential(potential) ==
    /\ Len(globals) < MaxGlobals
    /\ globals' = Append(globals, potential)
    /\ last' = Call("add_global_potential", FALSE)
    /\ UNCHANGED <<cell, particles, positions, molecules, kinds, pairs, bonds, angles, dihedrals,
                   coulomb, passed, assigned, otherVars>>

BondedNames == {"A", "B"}
\* a cutoff every cell accepts and one no cell accepts
TwoCutoffs == {Num(0), PosInf}

\* the names of the pair potentials the system is given
PairNames == {<<"A", "B">>, <<"C", "B">>, <<"C", "C">>}

Next ==
    \/ \E names \in Molecules(Names) : add_molecule(names)
    \/ \E names \in PairNames, c \in TwoCutoffs :
            add_pair_potential(names, [cutoff |-> c])
    \/ \E names \in {<<"A", "B">>, <<"B", "A">>}, p \in BondedPotentials :
            add_bond_potential(names, p)
    \/ \E names \in {<<"C", "B", "A">>}, p \in BondedPotentials :
            add_angle_potential(names, p)
    \/ \E names \in {<<"B", "C", "C", "A">>}, p \in BondedPotentials :
            add_dihedral_potential(names, p)

Spec == Init /\ [][Next]_vars

(***************************************************************************)
(* The cutoff checks, over every cell and every cutoff of the model        *)
(***************************************************************************)
InitCutoff == \E lengths \in CellLengths \X CellLengths \X CellLengths : with_cell(lengths)

NextPair ==
    \E names \in BondedNames \X BondedNames, c \in Cutoffs :
        add_pair_potential(names, [cutoff |-> c])

SpecPair == InitCutoff /\ [][NextPair]_vars

NextCoulomb ==
    \/ \E c \in CoulombCutoffs : set_coulomb_potential([cutoff |-> c])
    \/ \E p \in GlobalPotentials : add_global_potential(p)

SpecCoulomb == InitCutoff /\ [][NextCoulomb]_vars

(***************************************************************************)
(* DerefMut for System: the configuration, and with it the cell, is open   *)
(* to assignment                                                           *)
(***************************************************************************)
\* system.cell = UnitCell with these lengths, through deref_mut
set_cell(lengths) ==
    /\ cell' = lengths
    /\ last' = Call("set_cell", FALSE)
    /\ UNCHANGED <<particles, positions, molecules, kinds, pairs, bonds, angles, dihedrals,
                   coulomb, globals, passed, assigned, otherVars>>

NextCell ==
    \/ \E c \in Cutoffs : add_pair_potential(<<"A", "B">>, [cutoff |-> c])
    \/ \E c \in CoulombCutoffs : set_coulomb_potential([cutoff |-> c])
    \/ \E lengths \in CellLengths \X CellLengths \X CellLengths : set_cell(lengths)

SpecCell == InitCutoff /\ [][NextCell]_vars

(***************************************************************************)
(* The lookups: pair_potentials, bond_potentials, angle_potentials and     *)
(* dihedral_potentials, with their warn_once! on an empty list             *)
(***************************************************************************)
MaxWarnings == 3

\* the order of String: "A" < "B" < "C"
NameRank(name) == CASE name = "A" -> 1 [] name = "B" -> 2 [] name = "C" -> 3
NameLt(a, b) == NameRank(a) < NameRank(b)
\* std::cmp::max and std::cmp::min
NameMax(a, b) == IF NameLt(b, a) THEN a ELSE b
NameMin(a, b) == IF NameLt(b, a) THEN b ELSE a

\* the names written in the warning of pair_potentials
PairKeyAsGiven(a, b) == <<a, b>>
PairKey(a, b) == IF NameLt(a, b) THEN <<a, b>> ELSE <<b, a>>
\* the names written in the warning of bond_potentials
BondKey(a, b) == IF NameLt(a, b) THEN <<a, b>> ELSE <<b, a>>
\* the names written in the warning of angle_potentials
AngleKey(a, b, c) == IF NameLt(a, c) THEN <<a, b, c>> ELSE <<c, b, a>>
\* the names written in the warning of dihedral_potentials
DihedralKey(a, b, c, d) ==
    LET max_ij == NameMax(a, b)
        max_km == NameMax(c, d)
    IN IF max_ij = max_km
       THEN IF NameLt(NameMin(a, b), NameMin(c, d))
            THEN <<a, b, c, d>>
            ELSE <<d, c, b, a>>
       ELSE IF NameLt(max_ij, max_km)
            THEN <<a, b, c, d>>
            ELSE <<d, c, b, a>>

\* warn_once!(message): written to the log unless this call site has logged
\* the same message before
warn_once(site, names) ==
    LET message == <<site, names>>
    IN IF message \in seen
       THEN UNCHANGED <<seen, emitted>>
       ELSE /\ Cardinality(seen) < MaxWarnings
            /\ seen' = seen \cup {message}
            /\ emitted' = [m \in DOMAIN emitted \cup {message} |->
                              IF m \in DOMAIN emitted /\ m # message THEN emitted[m]
                              ELSE IF m \in DOMAIN emitted THEN emitted[m] + 1
                              ELSE 1]

Indexes == DOMAIN particles
NameAt(i) == particles[i].name
KindAt(i) == particles[i].kind

\* a lookup that creates the missing entry of the registry
pair_potentials_entry(i, j) ==
    LET key == SortKinds(<<KindAt(i), KindAt(j)>>)
        list == Registered(pairs, key)
    IN /\ IF list = <<>>
          THEN warn_once("pair", PairKey(NameAt(i), NameAt(j)))
          ELSE UNCHANGED <<seen, emitted>>
       /\ returned' = list
       /\ last' = Call("pair_potentials", FALSE)
       /\ pairs' = [k \in DOMAIN pairs \cup {key} |-> IF k = key THEN list ELSE pairs[k]]
       /\ UNCHANGED <<cell, particles, positions, molecules, kinds, bonds, angles, dihedrals, coulomb,
                      globals, passed, assigned, tempVars, cacheVars, queryVars>>
pair_potentials(i, j) ==
    LET list == Registered(pairs, <<KindAt(i), KindAt(j)>>)
    IN /\ IF list = <<>>
          THEN warn_once("pair", PairKey(NameAt(i), NameAt(j)))
          ELSE UNCHANGED <<seen, emitted>>
       /\ returned' = list
       /\ last' = Call("pair_potentials", FALSE)
       /\ UNCHANGED <<systemVars, tempVars, cacheVars, queryVars>>

bond_potentials(i, j) ==
    LET list == Registered(bonds, <<KindAt(i), KindAt(j)>>)
    IN /\ IF list = <<>>
          THEN warn_once("bond", BondKey(NameAt(i), NameAt(j)))
          ELSE UNCHANGED <<seen, emitted>>
       /\ returned' = list
       /\ last' = Call("bond_potentials", FALSE)
       /\ UNCHANGED <<systemVars, tempVars, cacheVars, queryVars>>

angle_potentials(i, j, k) ==
    LET list == Registered(angles, <<KindAt(i), KindAt(j), KindAt(k)>>)
    IN /\ IF list = <<>>
          THEN warn_once("angle", AngleKey(NameAt(i), NameAt(j), NameAt(k)))
          ELSE UNCHANGED <<seen, emitted>>
       /\ returned' = list
       /\ last' = Call("angle_potentials", FALSE)
       /\ UNCHANGED <<systemVars, tempVars, cacheVars, queryVars>>

dihedral_potentials(i, j, k, m) ==
    LET list == Registered(dihedrals, <<KindAt(i), KindAt(j), KindAt(k), KindAt(m)>>)
    IN /\ IF list = <<>>
          THEN warn_once("dihedral", DihedralKey(NameAt(i), NameAt(j), NameAt(k), NameAt(m)))
          ELSE UNCHANGED <<seen, emitted>>
       /\ returned' = list
       /\ last' = Call("dihedral_potentials", FALSE)
       /\ UNCHANGED <<systemVars, tempVars, cacheVars, queryVars>>

\* the four lookups on a system of two particles with some potentials; the
\* angles are looked up as (i, j, j) and the dihedrals as (i, i, j, j)
NextLookup ==
    \/ \E names \in {<<"A", "B">>} : add_molecule(names)
    \/ \E names \in {<<"A", "B">>} : add_pair_potential(names, [cutoff |-> Num(0)])
    \/ \E names \in {<<"B", "A">>}, p \in BondedPotentials : add_bond_potential(names, p)
    \/ \E names \in {<<"A", "B", "B">>}, p \in BondedPotentials :
            add_angle_potential(names, p)
    \/ \E names \in {<<"A", "A", "B", "B">>}, p \in BondedPotentials :
            add_dihedral_potential(names, p)
    \/ \E i, j \in Indexes : pair_potentials(i, j)
    \/ \E i, j \in Indexes : bond_potentials(i, j)
    \/ \E i, j \in Indexes : angle_potentials(i, j, j)
    \/ \E i, j \in Indexes : dihedral_potentials(i, i, j, j)

SpecLookup == Init /\ [][NextLookup]_vars

\* pair, bond and angle lookups on the particles of a system without potentials
NextWarn ==
    \/ \E names \in Molecules(BondedNames) : add_molecule(names)
    \/ \E i, j \in Indexes : pair_potentials(i, j)
    \/ \E i, j \in Indexes : bond_potentials(i, j)
    \/ \E i, j, k \in Indexes : angle_potentials(i, j, k)

SpecWarn == Init /\ [][NextWarn]_vars

\* dihedral lookups on the particles of a system without potentials
NextDihedral ==
    \/ \E names \in Molecules(BondedNames) : add_molecule(names)
    \/ \E i, j, k, m \in Indexes : dihedral_potentials(i, j, k, m)

SpecDihedral == Init /\ [][NextDihedral]_vars

(***************************************************************************)
(* System::simulated_temperature and the accessors that read it            *)
(***************************************************************************)
MaxTemperature == 2

Temperatures == {Num(n) : n \in (0 - MaxTemperature)..MaxTemperature} \cup {PosInf, NegInf, NaN}

simulated_temperature(temperature) ==
    IF temperature # NoneF /\ ~Ge(temperature, Num(0))
    THEN /\ last' = Call("simulated_temperature", TRUE)
         /\ UNCHANGED <<systemVars, lookupVars, tempVars, cacheVars, queryVars>>
    ELSE /\ external_temperature' = temperature
         /\ accepted' = temperature
         /\ last' = Call("simulated_temperature", FALSE)
         /\ UNCHANGED <<systemVars, lookupVars, cacheVars, queryVars>>

\* System::temperature, pressure and stress: which computation they run, and
\* at which temperature
temperature ==
    IF external_temperature # NoneF
    THEN [compute |-> "value", at |-> external_temperature]
    ELSE [compute |-> "Temperature", at |-> NoneF]
PressureFromVelocities == [compute |-> "Pressure", at |-> NoneF]
pressure ==
    IF external_temperature # NoneF
    THEN [compute |-> "PressureAtTemperature", at |-> external_temperature]
    ELSE [compute |-> "Pressure", at |-> NoneF]
stress ==
    IF external_temperature # NoneF
    THEN [compute |-> "StressAtTemperature", at |-> external_temperature]
    ELSE [compute |-> "Stress", at |-> NoneF]

NextTemperature ==
    \/ \E t \in Temperatures \cup {NoneF} : simulated_temperature(t)
    \/ \E names \in Molecules(Names) : add_molecule(names)

SpecTemperature == Init /\ [][NextTemperature]_vars

(***************************************************************************)
(* The energy of a configuration.  Positions are integers on a line and    *)
(* energies are integers: a pair potential on every pair of particles, a   *)
(* bond potential on consecutive particles of a molecule, and a coulombic  *)
(* potential restricted to pairs of different molecules.                   *)
(***************************************************************************)
Range(f) == {f[x] : x \in DOMAIN f}

MaxPosition == 2

Positions == 0..MaxPosition

\* the sum of the function e over the set S
RECURSIVE Sum(_, _)
Sum(S, e) ==
    IF S = {} THEN 0
    ELSE LET x == CHOOSE y \in S : TRUE
         IN e[x] + Sum(S \ {x}, e)

Distance(pos, i, j) == IF pos[i] < pos[j] THEN pos[j] - pos[i] ELSE pos[i] - pos[j]

\* the potentials as functions of the distance
PairU(r) == IF r = 0 THEN 4 ELSE IF r = 1 THEN 0 - 1 ELSE 0
BondU(r) == (r - 1) * (r - 1)
CoulombU(r) == IF r = 0 THEN 3 ELSE IF r <= 2 THEN 1 ELSE 0

AllPairs == {p \in (DOMAIN particles) \X (DOMAIN particles) : p[1] < p[2]}
SameMolecule(i, j) == \E m \in DOMAIN molecules : i \in Range(molecules[m]) /\ j \in Range(molecules[m])
IntraPairs == {p \in AllPairs : SameMolecule(p[1], p[2])}
InterPairs == AllPairs \ IntraPairs
BondedPairs == {p \in IntraPairs : p[2] = p[1] + 1}
Touching(ps, moved) == {p \in ps : p[1] \in moved \/ p[2] \in moved}

PairsEnergy(pos, ps) == Sum(ps, [p \in ps |-> PairU(Distance(pos, p[1], p[2]))])
BondsEnergy(pos, ps) == Sum(ps, [p \in ps |-> BondU(Distance(pos, p[1], p[2]))])
CoulombEnergy(pos, ps) == Sum(ps, [p \in ps |-> CoulombU(Distance(pos, p[1], p[2]))])

\* the full energy of the configuration at the positions pos
Energy(pos) ==
    PairsEnergy(pos, AllPairs) + BondsEnergy(pos, BondedPairs) + CoulombEnergy(pos, InterPairs)

\* the total the cache stores
CacheTotal(c) == c.pairs + c.bonded + c.global

(***************************************************************************)
(* EnergyCache                                                             *)
(***************************************************************************)
\* EnergyCache::init: one full evaluation, stored
cache_init ==
    /\ cache' = [initialized |-> TRUE,
                 pairs |-> PairsEnergy(positions, AllPairs),
                 intra |-> PairsEnergy(positions, IntraPairs),
                 bonded |-> BondsEnergy(positions, BondedPairs),
                 global |-> CoulombEnergy(positions, InterPairs)]
    /\ pending' = NoPending
    /\ last' = Call("init", FALSE)
    /\ UNCHANGED <<systemVars, lookupVars, tempVars, saved, queryVars>>

\* the positions with the particles of `moved` at their new positions
MovedTo(moved, new) == [i \in DOMAIN positions |-> IF i \in moved THEN new[i] ELSE positions[i]]

\* the cost with the sign of "old minus new"
ParticlesCostOldMinusNew(moved, new) ==
    LET after == MovedTo(moved, new)
        dPairs == PairsEnergy(positions, Touching(AllPairs, moved))
                    - PairsEnergy(after, Touching(AllPairs, moved))
        dIntra == PairsEnergy(positions, Touching(IntraPairs, moved))
                    - PairsEnergy(after, Touching(IntraPairs, moved))
        dBonded == BondsEnergy(positions, Touching(BondedPairs, moved))
                    - BondsEnergy(after, Touching(BondedPairs, moved))
        dGlobal == cache.global - CoulombEnergy(after, InterPairs)
    IN [kind |-> "particles", positions |-> after, cost |-> dPairs + dBonded + dGlobal,
        pairs |-> dPairs, intra |-> dIntra, bonded |-> dBonded, global |-> dGlobal]

\* what a query of the cost of moving `moved` to `new` finds: only the terms
\* with a moved particle are evaluated, at the old and at the new positions
ParticlesCost(moved, new) ==
    LET after == MovedTo(moved, new)
        dPairs == PairsEnergy(after, Touching(AllPairs, moved))
                    - PairsEnergy(positions, Touching(AllPairs, moved))
        dIntra == PairsEnergy(after, Touching(IntraPairs, moved))
                    - PairsEnergy(positions, Touching(IntraPairs, moved))
        dBonded == BondsEnergy(after, Touching(BondedPairs, moved))
                    - BondsEnergy(positions, Touching(BondedPairs, moved))
        dGlobal == CoulombEnergy(after, InterPairs) - cache.global
    IN [kind |-> "particles", positions |-> after, cost |-> dPairs + dBonded + dGlobal,
        pairs |-> dPairs, intra |-> dIntra, bonded |-> dBonded, global |-> dGlobal]

\* a cost query that stores what it finds at once
move_particles_cost_eager(moved, new) ==
    IF ~cache.initialized
    THEN /\ last' = Call("move_particles_cost", TRUE)
         /\ UNCHANGED <<systemVars, lookupVars, tempVars, cacheVars, queryVars>>
    ELSE LET found == ParticlesCost(moved, new)
         IN /\ pending' = found
            /\ cache' = [cache EXCEPT !.pairs = @ + found.pairs,
                                       !.intra = @ + found.intra,
                                       !.bonded = @ + found.bonded,
                                       !.global = @ + found.global]
            /\ last' = Call("move_particles_cost", FALSE)
            /\ UNCHANGED <<systemVars, lookupVars, tempVars, saved, queryVars>>

\* EnergyCache::move_particles_cost: an error before init
move_particles_cost(moved, new) ==
    IF ~cache.initialized
    THEN /\ last' = Call("move_particles_cost", TRUE)
         /\ UNCHANGED <<systemVars, lookupVars, tempVars, cacheVars, queryVars>>
    ELSE /\ pending' = ParticlesCost(moved, new)
         /\ last' = Call("move_particles_cost", FALSE)
         /\ UNCHANGED <<systemVars, lookupVars, tempVars, cache, saved, queryVars>>

\* the driver translates every molecule as a rigid body, keeping a copy of
\* the positions
translate_molecules(shift) ==
    /\ cache.initialized
    /\ saved = <<>>
    /\ pending = NoPending
    /\ LET moved == [i \in DOMAIN positions |->
                        positions[i] + shift[CHOOSE m \in DOMAIN molecules :
                                                i \in Range(molecules[m])]]
       IN /\ \A i \in DOMAIN moved : moved[i] \in Positions
          /\ moved # positions
          /\ positions' = moved
    /\ saved' = positions
    /\ last' = Call("translate_molecules", FALSE)
    /\ UNCHANGED <<cell, particles, molecules, kinds, pairs, bonds, angles, dihedrals,
                   coulomb, globals, passed, assigned, lookupVars, tempVars, cache, pending, queryVars>>

\* what a query of the cost of a rigid move of all molecules finds: the pairs
\* of one molecule and the bonds are left out
RigidCost ==
    LET dPairs == PairsEnergy(positions, InterPairs) - (cache.pairs - cache.intra)
        dGlobal == CoulombEnergy(positions, InterPairs) - cache.global
    IN [kind |-> "rigid", positions |-> positions, cost |-> dPairs + dGlobal,
        pairs |-> dPairs, intra |-> 0, bonded |-> 0, global |-> dGlobal]

\* a cost query that answers on a cache that was never initialized
move_all_rigid_molecules_cost_unchecked ==
    /\ pending' = RigidCost
    /\ last' = Call("move_all_rigid_molecules_cost", FALSE)
    /\ UNCHANGED <<systemVars, lookupVars, tempVars, cache, saved, queryVars>>

\* EnergyCache::move_all_rigid_molecules_cost: an error before init
move_all_rigid_molecules_cost ==
    IF ~cache.initialized
    THEN /\ last' = Call("move_all_rigid_molecules_cost", TRUE)
         /\ UNCHANGED <<systemVars, lookupVars, tempVars, cacheVars, queryVars>>
    ELSE /\ pending' = RigidCost
         /\ last' = Call("move_all_rigid_molecules_cost", FALSE)
         /\ UNCHANGED <<systemVars, lookupVars, tempVars, cache, saved, queryVars>>

\* the move is accepted: the driver puts the particles at their new positions
\* and EnergyCache::update adds the change found by the last cost query
cache_update ==
    /\ pending.kind # "none"
    /\ positions' = pending.positions
    /\ cache' = [cache EXCEPT !.pairs = @ + pending.pairs,
                              !.intra = @ + pending.intra,
                              !.bonded = @ + pending.bonded,
                              !.global = @ + pending.global]
    /\ pending' = NoPending
    /\ saved' = <<>>
    /\ last' = Call("update", FALSE)
    /\ UNCHANGED <<cell, particles, molecules, kinds, pairs, bonds, angles, dihedrals,
                   coulomb, globals, passed, assigned, lookupVars, tempVars, queryVars>>

\* the move is rejected: the driver drops it, and after a rigid move puts the
\* particles back
reject_move ==
    /\ pending.kind # "none"
    /\ positions' = IF saved = <<>> THEN positions ELSE saved
    /\ pending' = NoPending
    /\ saved' = <<>>
    /\ last' = Call("reject", FALSE)
    /\ UNCHANGED <<cell, particles, molecules, kinds, pairs, bonds, angles, dihedrals,
                   coulomb, globals, passed, assigned, lookupVars, tempVars, cache, queryVars>>

\* a system of a molecule of two particles and a molecule of one, at any
\* positions, and a new cache
InitCache ==
    /\ cell = LargeCell
    /\ particles = SetKinds(Empty, <<"A", "B", "A">>)
    /\ positions \in [1..3 -> Positions]
    /\ molecules = <<<<1, 2>>, <<3>>>>
    /\ kinds = get_kinds(Empty, <<"A", "B", "A">>)
    /\ pairs = Empty
    /\ bonds = Empty
    /\ angles = Empty
    /\ dihedrals = Empty
    /\ coulomb = NoCoulomb
    /\ globals = <<>>
    /\ passed = <<"A", "B">>
    /\ assigned = <<"A", "B">>
    /\ last = Call("add_molecule", FALSE)
    /\ seen = {}
    /\ emitted = Empty
    /\ returned = <<>>
    /\ external_temperature = NoneF
    /\ accepted = NoneF
    /\ cache = EmptyCache
    /\ pending = NoPending
    /\ saved = <<>>
    /\ simulated_degrees_of_freedom = Particles
    /\ topology = NoTopology
    /\ config = NoConfig
    /\ asked = <<>>
    /\ answer = <<>>

NextCache ==
    \/ saved = <<>> /\ cache_init
    \/ \E moved \in SUBSET (DOMAIN positions), step \in [DOMAIN positions -> {0 - 1, 1}] :
            /\ saved = <<>>
            /\ moved # {}
            /\ \A i \in moved : positions[i] + step[i] \in Positions
            /\ move_particles_cost(moved, [i \in DOMAIN positions |->
                    IF i \in moved THEN positions[i] + step[i] ELSE positions[i]])
    \/ \E shift \in [DOMAIN molecules -> {0 - 1, 0, 1}] : translate_molecules(shift)
    \/ move_all_rigid_molecules_cost
    \/ cache_update
    \/ reject_move

SpecCache == InitCache /\ [][NextCache]_vars

(***************************************************************************)
(* System::composition                                                     *)
(***************************************************************************)
\* Composition::new()
NewComposition == [particles |-> Empty, molecules |-> Empty]

\* a counter that forgets what it counted
add_once(counts, key) ==
    [k \in DOMAIN counts \cup {key} |-> IF k = key THEN 1 ELSE counts[k]]

\* Composition::add_particle and Composition::add_molecule: one more of `key`
add_one(counts, key) ==
    [k \in DOMAIN counts \cup {key} |->
        IF k # key THEN counts[k]
        ELSE IF key \in DOMAIN counts THEN counts[key] + 1 ELSE 1]

\* the first n keys counted, in order
RECURSIVE CountAll(_, _)
CountAll(keys, n) ==
    IF n = 0 THEN Empty ELSE add_one(CountAll(keys, n - 1), keys[n])

\* molecule.hash(): the molecules with the same names have the same hash
Hash(molecule) == [i \in DOMAIN molecule |-> particles[molecule[i]].name]

\* Composition::particles(kind) and Composition::molecules(hash)
CountOf(counts, key) == IF key \in DOMAIN counts THEN counts[key] ELSE 0

composition ==
    [particles |-> CountAll([i \in DOMAIN particles |-> particles[i].kind], Len(particles)),
     molecules |-> CountAll([m \in DOMAIN molecules |-> Hash(molecules[m])], Len(molecules))]

\* a call of composition()
get_composition ==
    /\ asked' = <<"composition">>
    /\ answer' = composition
    /\ last' = Call("composition", FALSE)
    /\ UNCHANGED <<systemVars, lookupVars, tempVars, cacheVars,
                   simulated_degrees_of_freedom, topology, config>>

NextComposition ==
    \/ \E names \in Molecules(Names) : add_molecule(names)
    \/ \E names \in PairNames, c \in TwoCutoffs :
            add_pair_potential(names, [cutoff |-> c])
    \/ get_composition

SpecComposition == Init /\ [][NextComposition]_vars

(***************************************************************************)
(* System::degrees_of_freedom.  usize is modelled with UsizeBits bits, wide *)
(* enough for three times the largest system of the model.                 *)
(***************************************************************************)
MaxFrozen == 4
UsizeBits == 5
UsizeModulus == 2 ^ UsizeBits

DegreesOfFreedom == {Particles, MoleculesRigid} \cup {Frozen(f) : f \in 0..MaxFrozen}

\* the public field simulated_degrees_of_freedom is assigned
set_simulated_degrees_of_freedom(d) ==
    /\ simulated_degrees_of_freedom' = d
    /\ last' = Call("set_simulated_degrees_of_freedom", FALSE)
    /\ UNCHANGED <<systemVars, lookupVars, tempVars, cacheVars, topology, config, asked, answer>>

\* self.size()
size == Len(particles)

\* a usize subtraction: with overflow checks it panics when b > a, without
\* them it wraps; the outcomes are [panicked, value]
UsizeSub(a, b) ==
    IF b <= a THEN {[panicked |-> FALSE, value |-> a - b]}
    ELSE {[panicked |-> TRUE, value |-> 0],
          [panicked |-> FALSE, value |-> (a - b) % UsizeModulus]}

\* the outcomes of degrees_of_freedom()
DegreesOfFreedomOutcomes ==
    CASE simulated_degrees_of_freedom = Particles ->
            {[panicked |-> FALSE, value |-> (3 * size) % UsizeModulus]}
      [] simulated_degrees_of_freedom = MoleculesRigid ->
            {[panicked |-> FALSE, value |-> (3 * Len(molecules)) % UsizeModulus]}
      [] OTHER -> UsizeSub((3 * size) % UsizeModulus, simulated_degrees_of_freedom[2])

degrees_of_freedom ==
    \E outcome \in DegreesOfFreedomOutcomes :
        /\ asked' = <<"degrees_of_freedom">>
        /\ answer' = IF outcome.panicked THEN <<>> ELSE outcome.value
        /\ last' = Call("degrees_of_freedom", outcome.panicked)
        /\ UNCHANGED <<systemVars, lookupVars, tempVars, cacheVars,
                       simulated_degrees_of_freedom, topology, config>>

NextDegrees ==
    \/ \E names \in Molecules(BondedNames) : add_molecule(names)
    \/ \E d \in DegreesOfFreedom : set_simulated_degrees_of_freedom(d)
    \/ degrees_of_freedom

SpecDegrees == Init /\ [][NextDegrees]_vars

(***************************************************************************)
(* PairRestriction: whether a pair of particles is excluded from a         *)
(* potential, or scaled                                                    *)
(***************************************************************************)
MaxAtoms == 5

Atoms == 1..MaxAtoms

Restrictions == {"None", "InterMolecular", "IntraMolecular", "Exclude12", "Exclude13",
                 "Exclude14", "Scale14"}

\* a weight: 1.0, or the scale factor of Scale14
One == "one"
Scale == "scale"
RestrictionInfo(excluded, scaling) == [excluded |-> excluded, scaling |-> scaling]

\* the particles bonded to a particle of S, and S
Neighbors(S) == S \cup {j \in Atoms : \E i \in S : {i, j} \in topology.bonds}

\* no path of bonds
Unconnected == 0 - 1

RECURSIVE BondDistanceFrom(_, _, _)
BondDistanceFrom(reached, j, d) ==
    IF j \in reached THEN d
    ELSE IF Neighbors(reached) = reached THEN Unconnected
    ELSE BondDistanceFrom(Neighbors(reached), j, d + 1)

\* the distance between the indexes, as if every molecule were a chain
index_distance(i, j) ==
    IF ~SameMolecule(i, j) THEN Unconnected ELSE IF i < j THEN j - i ELSE i - j

\* the number of bonds of the shortest path between two particles
bond_distance(i, j) == BondDistanceFrom({i}, j, 0)

\* the policy table of the restrictions
information(restriction, i, j) ==
    LET same == SameMolecule(i, j)
        d == bond_distance(i, j)
        ExcludedUpTo(n) == IF same /\ d <= n THEN RestrictionInfo(TRUE, One)
                           ELSE RestrictionInfo(FALSE, One)
    IN CASE restriction = "None" -> RestrictionInfo(FALSE, One)
         [] restriction = "InterMolecular" -> RestrictionInfo(same, One)
         [] restriction = "IntraMolecular" -> RestrictionInfo(~same, One)
         [] restriction = "Exclude12" -> ExcludedUpTo(1)
         [] restriction = "Exclude13" -> ExcludedUpTo(2)
         [] restriction = "Exclude14" -> ExcludedUpTo(3)
         [] restriction = "Scale14" ->
                IF same /\ d <= 2 THEN RestrictionInfo(TRUE, One)
                ELSE IF same /\ d = 3 THEN RestrictionInfo(FALSE, Scale)
                ELSE RestrictionInfo(FALSE, One)

\* set_restriction on a potential (benches/water.rs)
set_restriction(restriction) ==
    /\ topology' = [topology EXCEPT !.restriction = restriction]
    /\ last' = Call("set_restriction", FALSE)
    /\ UNCHANGED <<systemVars, lookupVars, tempVars, cacheVars,
                   simulated_degrees_of_freedom, config, asked, answer>>

\* the evaluator asked about the pair (i, j)
restriction_information(i, j) ==
    /\ asked' = <<topology.restriction, i, j>>
    /\ answer' = information(topology.restriction, i, j)
    /\ last' = Call("information", FALSE)
    /\ UNCHANGED <<systemVars, lookupVars, tempVars, cacheVars,
                   simulated_degrees_of_freedom, topology, config>>

\* the molecules of a configuration of one molecule, or of two, the first
\* with the particles up to `cut`
Blocks(cut) ==
    IF cut = MaxAtoms THEN <<[i \in Atoms |-> i]>>
    ELSE <<[i \in 1..cut |-> i], [i \in 1..(MaxAtoms - cut) |-> cut + i]>>

\* the bonds of the molecules: every particle but the first of its molecule
\* is bonded to one of the two particles before it in the molecule, and the
\* first molecule may be closed in a ring
BondsOf(cut, parent, ring) ==
    {{parent[i], i} : i \in (Atoms \ {1, cut + 1})}
        \cup (IF ring /\ cut >= 3 THEN {{1, cut}} ELSE {})

Parents(cut) ==
    {parent \in [Atoms -> Atoms] :
        \A i \in Atoms :
            IF i \in {1, cut + 1} THEN parent[i] = i
            ELSE /\ parent[i] \in {i - 1, i - 2}
                 /\ parent[i] <= cut <=> i <= cut}

\* a system of particles in one or two molecules, with their bonds
InitRestriction ==
    /\ cell = LargeCell
    /\ particles = SetKinds(Empty, [i \in Atoms |-> "A"])
    /\ positions = [i \in Atoms |-> 0]
    /\ \E cut \in Atoms :
          /\ molecules = Blocks(cut)
          /\ \E parent \in Parents(cut), ring \in BOOLEAN :
                topology = [restriction |-> "None", bonds |-> BondsOf(cut, parent, ring)]
    /\ kinds = get_kinds(Empty, <<"A">>)
    /\ pairs = Empty
    /\ bonds = Empty
    /\ angles = Empty
    /\ dihedrals = Empty
    /\ coulomb = NoCoulomb
    /\ globals = <<>>
    /\ passed = <<"A">>
    /\ assigned = <<"A">>
    /\ last = Call("add_molecule", FALSE)
    /\ seen = {}
    /\ emitted = Empty
    /\ returned = <<>>
    /\ external_temperature = NoneF
    /\ accepted = NoneF
    /\ cache = EmptyCache
    /\ pending = NoPending
    /\ saved = <<>>
    /\ simulated_degrees_of_freedom = Particles
    /\ config = NoConfig
    /\ asked = <<>>
    /\ answer = <<>>

NextRestriction ==
    \/ \E restriction \in Restrictions : set_restriction(restriction)
    \/ \E i, j \in Atoms : i < j /\ restriction_information(i, j)

SpecRestriction == InitRestriction /\ [][NextRestriction]_vars

(***************************************************************************)
(* Input::system_table, Input::read_cell and get_cell_number.  A TOML      *)
(* value is a pair of its type and its content; `config.systems` is the    *)
(* value at the key "systems", <<"missing">> without the key; a table of   *)
(* `systems` is <<"table", cell>> with the value at its key "cell".        *)
(***************************************************************************)
MaxSystems == 2
MaxCellArray == 6

Missing == <<"missing">>
Integer(n) == <<"integer", n>>
Float(x) == <<"float", x>>
String(x) == <<"string", x>>
Array(values) == <<"array", values>>
Table(cellValue) == <<"table", cellValue>>

\* the constructors of UnitCell
UnitCellNew == <<"infinite">>
UnitCellCubic(length) == <<"cubic", length>>
UnitCellOrtho(a, b, c) == <<"ortho", a, b, c>>
UnitCellTriclinic(a, b, c, alpha, beta, gamma) == <<"triclinic", a, b, c, alpha, beta, gamma>>

\* extract::slice
slice(key, value, context) ==
    IF value = Missing THEN Err(<<"Missing key", key, context>>)
    ELSE IF value[1] # "array" THEN Err(<<"must be an array", key, context>>)
    ELSE Ok(value[2])

system_table(c) ==
    LET systems == slice("systems", c.systems, "input file")
    IN IF systems[1] = "Err" THEN systems
       ELSE IF systems[2] = <<>> THEN Err("'systems' array should contain a system")
       ELSE IF Len(systems[2]) > 1 THEN Err("Only one system is supported in input file")
       ELSE IF systems[2][1][1] # "table"
            THEN Err("'systems' should be an array of tables in input file")
       ELSE Ok(systems[2][1])

\* a reading of the numbers that knows floats only
get_cell_number_float_only(value) ==
    IF value[1] = "float" THEN Ok(value[2])
    ELSE Err("Values must be numbers in 'cell' array")

get_cell_number(value) ==
    IF value[1] = "integer" THEN Ok(Num(value[2]))
    ELSE IF value[1] = "float" THEN Ok(value[2])
    ELSE Err("Values must be numbers in 'cell' array")

\* the chain of try!(get_cell_number(..)): the numbers, or the first error
CellNumbers(values) ==
    LET numbers == [i \in DOMAIN values |-> get_cell_number(values[i])]
        errors == {i \in DOMAIN values : numbers[i][1] = "Err"}
    IN IF errors # {} THEN numbers[CHOOSE i \in errors : \A k \in errors : i <= k]
       ELSE Ok([i \in DOMAIN values |-> numbers[i][2]])

read_cell(c) ==
    LET table == system_table(c)
    IN IF table[1] = "Err" THEN table
       ELSE LET value == table[2][2]
            IN IF value = Missing THEN Ok(None)
               ELSE CASE value[1] = "array" ->
                        IF value[2] = <<>> THEN Ok(Some(UnitCellNew))
                        ELSE IF Len(value[2]) = 3
                        THEN LET n == CellNumbers(value[2])
                             IN IF n[1] = "Err" THEN n
                                ELSE Ok(Some(UnitCellOrtho(n[2][1], n[2][2], n[2][3])))
                        ELSE IF Len(value[2]) = 6
                        THEN LET n == CellNumbers(value[2])
                             IN IF n[1] = "Err" THEN n
                                ELSE Ok(Some(UnitCellTriclinic(n[2][1], n[2][2], n[2][3],
                                                               n[2][4], n[2][5], n[2][6])))
                        ELSE Err("'cell' array must have a size of 3 or 6")
                      [] value[1] = "integer" -> Ok(Some(UnitCellCubic(Num(value[2]))))
                      [] value[1] = "float" -> Ok(Some(UnitCellCubic(value[2])))
                      [] OTHER -> Err("'cell' must be a number or an array in system")

\* the values of the model: at the key "systems", as an entry of the array,
\* at the key "cell", and in the array of the cell
SystemsValues == {String("water.xyz"), Array(<<>>)}
SystemsEntries == {Table(Missing), Integer(1)}
CellValues == {Integer(3), Float(Num(2)), Float(NaN), String("cubic"), Array(<<>>)}
CellElements == {Integer(3), Float(Num(2)), String("3")}

\* the input file gets the key "systems"
set_systems(value) ==
    /\ config.systems = Missing
    /\ config' = [config EXCEPT !.systems = value]
    /\ last' = Call("set_systems", FALSE)
    /\ UNCHANGED <<systemVars, lookupVars, tempVars, cacheVars,
                   simulated_degrees_of_freedom, topology, asked, answer>>

\* one more entry in the array "systems"
push_system(entry) ==
    /\ config.systems[1] = "array"
    /\ Len(config.systems[2]) < MaxSystems
    /\ config' = [config EXCEPT !.systems = Array(Append(config.systems[2], entry))]
    /\ last' = Call("push_system", FALSE)
    /\ UNCHANGED <<systemVars, lookupVars, tempVars, cacheVars,
                   simulated_degrees_of_freedom, topology, asked, answer>>

\* the first system is a table: the value at its key "cell"
CellOfFirst ==
    IF config.systems[1] = "array" /\ config.systems[2] # <<>>
          /\ config.systems[2][1][1] = "table"
    THEN config.systems[2][1][2] ELSE <<"no table">>

WithCell(value) ==
    [config EXCEPT !.systems =
        Array([config.systems[2] EXCEPT ![1] = Table(value)])]

\* the first system gets the key "cell"
set_cell_value(value) ==
    /\ CellOfFirst = Missing
    /\ config' = WithCell(value)
    /\ last' = Call("set_cell_value", FALSE)
    /\ UNCHANGED <<systemVars, lookupVars, tempVars, cacheVars,
                   simulated_degrees_of_freedom, topology, asked, answer>>

\* one more value in the array "cell" of the first system
push_cell_value(value) ==
    /\ CellOfFirst[1] = "array"
    /\ Len(CellOfFirst[2]) < MaxCellArray
    /\ config' = WithCell(Array(Append(CellOfFirst[2], value)))
    /\ last' = Call("push_cell_value", FALSE)
    /\ UNCHANGED <<systemVars, lookupVars, tempVars, cacheVars,
                   simulated_degrees_of_freedom, topology, asked, answer>>

\* a call of Input::read_cell
input_read_cell ==
    /\ asked' = <<"read_cell">>
    /\ answer' = read_cell(config)
    /\ last' = Call("read_cell", FALSE)
    /\ UNCHANGED <<systemVars, lookupVars, tempVars, cacheVars,
                   simulated_degrees_of_freedom, topology, config>>

NextInput ==
    \/ \E value \in SystemsValues : set_systems(value)
    \/ \E entry \in SystemsEntries : push_system(entry)
    \/ \E value \in CellValues : set_cell_value(value)
    \/ \E value \in CellElements : push_cell_value(value)
    \/ input_read_cell

SpecInput == Init /\ [][NextInput]_vars

(***************************************************************************)
(* The particle-kind registry                                              *)
(***************************************************************************)

AppendOnly == \A n \in DOMAIN kinds : n \in DOMAIN kinds' /\ kinds'[n] = kinds[n]
SameNameSameKind ==
    \A i \in DOMAIN particles :
        /\ particles[i].name \in DOMAIN kinds
        /\ particles[i].kind = kinds[particles[i].name]

\* C1: a name that has a kind keeps it through every add_molecule and
\* add_*_potential call (the name-to-kind map is append-only), and every
\* particle carries the kind of its name.
C1_KindsAppendOnly == [][AppendOnly /\ SameNameSameKind']_vars

\* two particles of one name, added while another name got a kind as well
C1_Witness ==
    /\ Len(particles) = 2
    /\ particles[1].name = particles[2].name
    /\ Size(kinds) >= 2

\* C2 as stated: the n-th distinct name passed to the system, in any call,
\* has ParticleKind(n-1).
C2_PassedOrder ==
    \A n \in DOMAIN kinds : \E i \in DOMAIN passed : passed[i] = n /\ kinds[n] = i - 1

\* C2 amended: the n-th distinct name given to get_kind, that is passed to
\* add_molecule or to an add_*_potential call that does not fail its cutoff
\* check, has ParticleKind(n-1); so distinct names have distinct kinds and the
\* kinds in use are exactly 0..n-1.
C2_AssignedOrder ==
    /\ DOMAIN kinds = Range(assigned)
    /\ \A i \in DOMAIN assigned : kinds[assigned[i]] = i - 1
    /\ \A n, m \in DOMAIN kinds : n # m => kinds[n] # kinds[m]
    /\ Range(kinds) = 0..(Size(kinds) - 1)

\* three names have a kind, and a failed call showed a name before it got one
C2_Witness == Len(assigned) = 3 /\ passed # assigned /\ Len(particles) >= 1

(***************************************************************************)
(* The cutoff checks                                                       *)
(***************************************************************************)
\* cutoff > d / 2 over the reals extended with infinity; false for NaN
ExceedsHalf(cutoff, d) ==
    CASE cutoff = PosInf -> TRUE
      [] cutoff = NaN -> FALSE
      [] OTHER -> 2 * cutoff[2] > d[2]
ExceedsHalfOfAny(cutoff, lengths) == \E a \in 1..3 : ExceedsHalf(cutoff, lengths[a])

\* C3: add_pair_potential panics exactly when the cutoff is strictly greater
\* than half of at least one cell length; otherwise the potential is pushed
\* on the list of the kinds of the two names.
C3_PairCutoff ==
    [][\A names \in BondedNames \X BondedNames, c \in Cutoffs :
          last'.op = "add_pair_potential" /\ add_pair_potential(names, [cutoff |-> c]) =>
            /\ last'.panicked <=> ExceedsHalfOfAny(c, cell)
            /\ ~last'.panicked =>
                  /\ names[1] \in DOMAIN kinds' /\ names[2] \in DOMAIN kinds'
                  /\ LET key == <<kinds'[names[1]], kinds'[names[2]]>>
                     IN Registered(pairs', key) =
                            Append(Registered(pairs, key), [cutoff |-> c])]_vars

\* a pair potential whose cutoff is exactly half the smallest cell length
\* was accepted
C3_Witness ==
    /\ last.op = "add_pair_potential" /\ ~last.panicked
    /\ \E a \in 1..3 :
          /\ \A b \in 1..3 : ~Lt(cell[b], cell[a])
          /\ \E k \in DOMAIN pairs : \E i \in DOMAIN pairs[k] :
                pairs[k][i].cutoff = Half(cell[a])

\* C4: set_coulomb_potential panics when the potential reports a cutoff that
\* exceeds half of a cell length and installs the potential in every other
\* case, a potential without cutoff included.
C4_CoulombCutoff ==
    [][\A c \in CoulombCutoffs :
          last'.op = "set_coulomb_potential" /\ set_coulomb_potential([cutoff |-> c]) =>
            IF c # NoneF /\ ExceedsHalfOfAny(c, cell)
            THEN last'.panicked /\ coulomb' = coulomb
            ELSE ~last'.panicked /\ coulomb' = [some |-> TRUE, cutoff |-> c]]_vars

\* a potential without cutoff was installed
C4_Witness ==
    /\ last.op = "set_coulomb_potential" /\ ~last.panicked
    /\ coulomb = [some |-> TRUE, cutoff |-> NoneF]

(***************************************************************************)
(* The warnings of the lookups                                             *)
(***************************************************************************)
LookupOps == {"pair_potentials", "bond_potentials", "angle_potentials", "dihedral_potentials"}

\* no potential was registered for a kind tuple, in either order
Unregistered(registry, key) == key \notin DOMAIN registry /\ Reverse(key) \notin DOMAIN registry

\* C5: a lookup never fails and leaves the registries, the kinds and the
\* particles as they are; for particles whose kinds have no potential
\* registered it returns the empty list.
C5_LookupUnregistered ==
    [][last'.op \in LookupOps =>
         /\ ~last'.panicked
         /\ UNCHANGED <<kinds, pairs, bonds, angles, dihedrals, particles, coulomb, globals>>
         /\ \/ returned' = <<>>
            \/ /\ \A i, j \in Indexes :
                     /\ ~ /\ last'.op = "pair_potentials"
                          /\ Unregistered(pairs, <<KindAt(i), KindAt(j)>>)
                          /\ pair_potentials(i, j)
                     /\ ~ /\ last'.op = "bond_potentials"
                          /\ Unregistered(bonds, <<KindAt(i), KindAt(j)>>)
                          /\ bond_potentials(i, j)
               /\ \A i, j, k \in Indexes :
                     ~ /\ last'.op = "angle_potentials"
                       /\ Unregistered(angles, <<KindAt(i), KindAt(j), KindAt(k)>>)
                       /\ angle_potentials(i, j, k)
               /\ \A i, j, k, m \in Indexes :
                     ~ /\ last'.op = "dihedral_potentials"
                       /\ Unregistered(dihedrals,
                                       <<KindAt(i), KindAt(j), KindAt(k), KindAt(m)>>)
                       /\ dihedral_potentials(i, j, k, m)]_vars

\* a dihedral lookup returned nothing in a system of two kinds that has a
\* dihedral potential for other kinds
C5_Witness ==
    /\ last.op = "dihedral_potentials"
    /\ returned = <<>>
    /\ Size(kinds) = 2
    /\ Count(dihedrals) = 1

\* the number of warnings a call site wrote for a tuple of names or its reverse
Written(site, names) ==
    LET n(t) == IF <<site, t>> \in DOMAIN emitted THEN emitted[<<site, t>>] ELSE 0
    IN IF Reverse(names) = names THEN n(names) ELSE n(names) + n(Reverse(names))

Tuples2 == BondedNames \X BondedNames
Tuples3 == BondedNames \X BondedNames \X BondedNames
Tuples4 == BondedNames \X BondedNames \X BondedNames \X BondedNames

\* C6: a pair or a bond looked up as (i, j) and as (j, i), and an angle looked
\* up as (i, j, k) and as (k, j, i), give the same names in the warning, so
\* over any sequence of lookups at most one warning is written for the tuple.
C6_OneWarningPerTuple ==
    /\ \A i, j \in Indexes :
          /\ PairKey(NameAt(i), NameAt(j)) = PairKey(NameAt(j), NameAt(i))
          /\ BondKey(NameAt(i), NameAt(j)) = BondKey(NameAt(j), NameAt(i))
    /\ \A i, j, k \in Indexes :
          AngleKey(NameAt(i), NameAt(j), NameAt(k)) = AngleKey(NameAt(k), NameAt(j), NameAt(i))
    /\ \A t \in Tuples2 : Written("pair", t) <= 1 /\ Written("bond", t) <= 1
    /\ \A t \in Tuples3 : Written("angle", t) <= 1

\* the pair (A, B) was looked up, and so was an angle between two names
C6_Witness ==
    /\ <<"pair", <<"A", "B">>>> \in seen
    /\ \E b \in BondedNames : <<"angle", <<"A", b, "B">>>> \in seen
    /\ last.op = "bond_potentials"

\* C7: a dihedral looked up as (i, j, k, m) and as (m, k, j, i) gives the same
\* names in the warning, so the two orders write at most one warning.
C7_OneWarningPerDihedral == \A t \in Tuples4 : Written("dihedral", t) <= 1

(***************************************************************************)
(* The external temperature                                                *)
(***************************************************************************)
IsNegative(t) == t = NegInf \/ (IsNum(t) /\ t[2] < 0)

\* what a call of simulated_temperature(t) that panics exactly when Fails(t)
\* does: a failure leaves the stored temperature, a success stores t
TemperatureContract(Fails(_)) ==
    \A t \in Temperatures \cup {NoneF} :
        last'.op = "simulated_temperature" /\ simulated_temperature(t) =>
            /\ last'.panicked <=> (t # NoneF /\ Fails(t))
            /\ last'.panicked => external_temperature' = external_temperature
            /\ ~last'.panicked => external_temperature' = t

\* C8 as stated: simulated_temperature(Some(t)) panics exactly when t is
\* negative and then leaves the stored temperature; Some(t) with t >= 0
\* stores t and None clears the stored value.
C8_PanicsIffNegative == [][TemperatureContract(IsNegative)]_vars

NegativeOrNaN(t) == IsNegative(t) \/ t = NaN

\* C8 amended: simulated_temperature(Some(t)) panics exactly when t is
\* negative or NaN (when t >= 0.0 is false) and then leaves the stored
\* temperature; every other Some(t), zero included, stores t and None clears
\* the stored value.
C8_PanicsIffNotGeZero == [][TemperatureContract(NegativeOrNaN)]_vars

\* a failed call after zero was stored
C8_Witness ==
    /\ last.op = "simulated_temperature" /\ last.panicked
    /\ external_temperature = Num(0)

\* C9: after the last call simulated_temperature(Some(t)) that returned,
\* temperature() is t and pressure() and stress() are computed at t; after
\* simulated_temperature(None), or without any call, the three are computed
\* from the velocities.
C9_TemperatureSource ==
    IF accepted # NoneF
    THEN /\ temperature = [compute |-> "value", at |-> accepted]
         /\ pressure = [compute |-> "PressureAtTemperature", at |-> accepted]
         /\ stress = [compute |-> "StressAtTemperature", at |-> accepted]
    ELSE /\ temperature = [compute |-> "Temperature", at |-> NoneF]
         /\ pressure = [compute |-> "Pressure", at |-> NoneF]
         /\ stress = [compute |-> "Stress", at |-> NoneF]

\* a temperature was imposed, and a later call failed
C9_Witness ==
    /\ last.op = "simulated_temperature" /\ last.panicked
    /\ accepted = Num(MaxTemperature)
    /\ Len(particles) >= 1

(***************************************************************************)
(* The energy cache                                                        *)
(***************************************************************************)
CostOps == {"move_particles_cost", "move_all_rigid_molecules_cost"}

\* C10: a cost query changes neither the energies the cache stores nor the
\* configuration, the same query asked again with no update in between
\* returns the same cost, and the stored energies change only by init and
\* update.
C10_CostQueryIsReadOnly ==
    [][/\ last'.op \in CostOps =>
            /\ cache' = cache
            /\ UNCHANGED <<cell, particles, positions, molecules>>
            /\ ( /\ last.op = last'.op
                 /\ ~last'.panicked
                 /\ pending'.positions = pending.positions ) => pending'.cost = pending.cost
       /\ cache' # cache => last'.op \in {"init", "update"}]_vars

\* a query of the cost of moving particles was asked twice and found a cost
C10_Witness ==
    /\ last.op = "move_particles_cost" /\ ~last.panicked
    /\ pending.cost # 0
    /\ pending.positions # positions
    /\ CacheTotal(cache) = Energy(positions)

\* C11: a cost query on a cache on which init has not run is an error and
\* leaves the cache uninitialized, and a cache that is initialized stays
\* initialized through every operation.
C11_CacheStateMachine ==
    [][/\ (last'.op \in CostOps /\ ~cache.initialized) =>
            (last'.panicked /\ ~cache'.initialized)
       /\ cache.initialized => (cache'.initialized /\ ~last'.panicked)]_vars

\* a cost query was asked of a new cache and failed
C11_Witness ==
    /\ ~cache.initialized
    /\ last.op = "move_all_rigid_molecules_cost"
    /\ last.panicked

\* C12: the cost a query of move_particles_cost found is the energy of the
\* configuration with the particles moved minus the energy of the live
\* configuration, and with no rigid move under way the total the cache stores
\* is the full energy of the live configuration.
C12_CostIsEnergyDifference ==
    /\ pending.kind = "particles" =>
            pending.cost = Energy(pending.positions) - Energy(positions)
    /\ (cache.initialized /\ saved = <<>>) => CacheTotal(cache) = Energy(positions)

\* the cost of moving the first particle alone, which changes its bond
C12_Witness ==
    /\ pending.kind = "particles"
    /\ pending.positions[1] # positions[1]
    /\ pending.positions[2] = positions[2]
    /\ pending.positions[3] = positions[3]
    /\ pending.bonded # 0
    /\ pending.cost < 0

(***************************************************************************)
(* The pair restrictions                                                   *)
(***************************************************************************)
\* there is a path of at most n bonds from i to j
RECURSIVE Within(_, _, _)
Within(n, i, j) ==
    \/ i = j
    \/ /\ n > 0
       /\ \E k \in Atoms : {i, k} \in topology.bonds /\ Within(n - 1, k, j)

\* C13: the answer of the evaluator for a pair follows the policy table: None
\* includes with weight 1, InterMolecular excludes exactly the pairs of one
\* molecule, IntraMolecular exactly the others, Exclude1-2, 1-3 and 1-4
\* exclude exactly the pairs of one molecule at 1, 2 and 3 bonds or less,
\* Scale1-4 excludes at 2 bonds or less and scales at exactly 3, every other
\* pair has weight 1, and a pair of two molecules is excluded only by
\* IntraMolecular.
C13_RestrictionTable ==
    asked # <<>> =>
        LET r == asked[1]
            i == asked[2]
            j == asked[3]
            same == SameMolecule(i, j)
            near(n) == same /\ Within(n, i, j)
        IN /\ r = "None" => answer = RestrictionInfo(FALSE, One)
           /\ r = "InterMolecular" => (answer.excluded <=> same)
           /\ r = "IntraMolecular" => (answer.excluded <=> ~same)
           /\ r = "Exclude12" => (answer.excluded <=> near(1))
           /\ r = "Exclude13" => (answer.excluded <=> near(2))
           /\ r = "Exclude14" => (answer.excluded <=> near(3))
           /\ r = "Scale14" =>
                 /\ answer.excluded <=> near(2)
                 /\ answer.scaling = Scale <=> (near(3) /\ ~near(2))
           /\ r # "Scale14" => answer.scaling = One
           /\ (~same /\ r # "IntraMolecular") => answer = RestrictionInfo(FALSE, One)

\* Scale1-4 asked about two particles of a molecule three bonds apart although
\* their indexes are not, and found them scaled
C13_Witness ==
    /\ asked # <<>>
    /\ asked[1] = "Scale14"
    /\ answer = RestrictionInfo(FALSE, Scale)
    /\ asked[3] - asked[2] # 3

(***************************************************************************)
(* The composition                                                         *)
(***************************************************************************)
\* the sum of the counts
Total(counts) == Sum(DOMAIN counts, counts)

\* C14: what composition() returned counts, for every kind, the particles of
\* that kind, so that the counts sum to the size of the system, and counts
\* one molecule for every molecule of the configuration.
C14_CompositionCounts ==
    last.op = "composition" =>
        /\ \A k \in 0..Size(kinds) :
              CountOf(answer.particles, k)
                  = Cardinality({i \in DOMAIN particles : particles[i].kind = k})
        /\ Total(answer.particles) = Len(particles)
        /\ Total(answer.molecules) = Len(molecules)
        /\ \A m \in DOMAIN molecules :
              CountOf(answer.molecules, Hash(molecules[m]))
                  = Cardinality({n \in DOMAIN molecules :
                                    Hash(molecules[n]) = Hash(molecules[m])})

\* the composition of two molecules of one particle of the same kind, in a
\* system that knows a kind without particles
C14_Witness ==
    /\ last.op = "composition"
    /\ Len(molecules) = 2
    /\ \E k \in Range(kinds) : CountOf(answer.particles, k) = 2
    /\ \E k \in Range(kinds) : CountOf(answer.particles, k) = 0

(***************************************************************************)
(* The coulombic slot                                                      *)
(***************************************************************************)
\* C15: coulomb_potential() is None until a set_coulomb_potential call
\* succeeds and then the potential of the last call that succeeded: a call
\* that succeeds installs its potential, a call that fails leaves the slot
\* and the globals, and add_global_potential appends to the globals and
\* leaves the slot.
C15_OneCoulombPotential ==
    [][/\ last.op = "new" => coulomb_potential = None
       /\ \A c \in CoulombCutoffs :
            ( /\ last'.op = "set_coulomb_potential"
              /\ ~last'.panicked
              /\ set_coulomb_potential([cutoff |-> c]) ) =>
                (coulomb_potential' = Some([cutoff |-> c]) /\ globals' = globals)
       /\ (last'.op = "set_coulomb_potential" /\ last'.panicked) =>
                (coulomb_potential' = coulomb_potential /\ globals' = globals)
       /\ last'.op = "add_global_potential" =>
                /\ coulomb_potential' = coulomb_potential
                /\ Len(globals') = Len(globals) + 1
                /\ SubSeq(globals', 1, Len(globals)) = globals]_vars

\* a call failed after a potential was installed and a global potential added
C15_Witness ==
    /\ last.op = "set_coulomb_potential" /\ last.panicked
    /\ coulomb_potential # None
    /\ Len(globals) = 1

(***************************************************************************)
(* A registration that fails                                               *)
(***************************************************************************)
\* C16: a call of add_pair_potential that fails the cutoff check leaves the
\* system as it was: the kinds, so that the next new name still gets the next
\* number, the registries, the configuration and the other potentials.
C16_FailedPairLeavesSystem ==
    [][(last'.op = "add_pair_potential" /\ last'.panicked) =>
            /\ kinds' = kinds
            /\ \A n \in Names \ DOMAIN kinds : KindOf(kinds', n) = Size(kinds)
            /\ pairs' = pairs
            /\ UNCHANGED <<cell, particles, positions, molecules, bonds, angles,
                           dihedrals, coulomb, globals>>]_vars

\* a call failed with a name the system had never seen, and the system still
\* has no kind for it
C16_Witness ==
    /\ last.op = "add_pair_potential" /\ last.panicked
    /\ \E i \in DOMAIN passed : passed[i] \notin DOMAIN kinds
    /\ Size(kinds) > 0

(***************************************************************************)
(* The cutoffs and the cell                                                *)
(***************************************************************************)
\* C17: in every state, no registered pair potential and no installed
\* coulombic potential has a cutoff that exceeds half of a cell length, also
\* after the cell was changed through the mutable access to the configuration.
C17_CutoffsWithinHalfCell ==
    /\ \A k \in DOMAIN pairs : \A i \in DOMAIN pairs[k] :
          ~ExceedsHalfOfAny(pairs[k][i].cutoff, cell)
    /\ (coulomb.some /\ coulomb.cutoff # NoneF) => ~ExceedsHalfOfAny(coulomb.cutoff, cell)

(***************************************************************************)
(* The degrees of freedom                                                  *)
(***************************************************************************)
\* C18: degrees_of_freedom() returns 3 * size for Particles, three times the
\* number of molecules for Molecules and 3 * size - f for Frozen(f), and for
\* every f the field can hold the subtraction does not underflow: the call
\* returns, with the difference of the two numbers.
C18_DegreesOfFreedom ==
    last.op = "degrees_of_freedom" =>
        /\ ~last.panicked
        /\ simulated_degrees_of_freedom = Particles => answer = 3 * size
        /\ simulated_degrees_of_freedom = MoleculesRigid => answer = 3 * Len(molecules)
        /\ simulated_degrees_of_freedom[1] = "Frozen" =>
              /\ simulated_degrees_of_freedom[2] <= 3 * size
              /\ answer = 3 * size - simulated_degrees_of_freedom[2]

(***************************************************************************)
(* The input file                                                          *)
(***************************************************************************)
IsNumber(value) == value[1] \in {"integer", "float"}
AsF64(value) == IF value[1] = "integer" THEN Num(value[2]) ELSE value[2]
IsErr(result) == result[1] = "Err"

\* C19: read_cell returns a cell or no cell only when "systems" is an array
\* of exactly one entry, and an error when the array is empty or longer;
\* with one table, it returns no cell without the key "cell", the infinite
\* cell for an empty array, the orthorhombic cell of 3 numbers, the triclinic
\* cell of 6 numbers, the cubic cell of one integer or float, and an error
\* for every other length, for an element that is not a number and for
\* every other type.
C19_ReadCell ==
    last.op = "read_cell" =>
        LET systems == config.systems
            one == systems[1] = "array" /\ Len(systems[2]) = 1
            value == CellOfFirst
        IN /\ ~IsErr(answer) => one
           /\ (systems[1] = "array" /\ Len(systems[2]) # 1) => IsErr(answer)
           /\ (one /\ value = Missing) => answer = Ok(None)
           /\ (one /\ value = Array(<<>>)) => answer = Ok(Some(UnitCellNew))
           /\ (one /\ value[1] = "array" /\ Len(value[2]) = 3) =>
                 IF \A i \in 1..3 : IsNumber(value[2][i])
                 THEN answer = Ok(Some(<<"ortho">> \o [i \in 1..3 |-> AsF64(value[2][i])]))
                 ELSE IsErr(answer)
           /\ (one /\ value[1] = "array" /\ Len(value[2]) = 6) =>
                 IF \A i \in 1..6 : IsNumber(value[2][i])
                 THEN answer = Ok(Some(<<"triclinic">> \o [i \in 1..6 |-> AsF64(value[2][i])]))
                 ELSE IsErr(answer)
           /\ (one /\ value[1] = "array" /\ Len(value[2]) \notin {0, 3, 6}) => IsErr(answer)
           /\ (one /\ IsNumber(value)) => answer = Ok(Some(UnitCellCubic(AsF64(value))))
           /\ (one /\ value[1] \in {"string", "no table"}) => IsErr(answer)

\* a triclinic cell was read from six numbers, integers and floats
C19_Witness ==
    /\ last.op = "read_cell"
    /\ answer[1] = "Ok"
    /\ answer[2][1] = "Some"
    /\ answer[2][2][1] = "triclinic"
    /\ \E i, j \in 1..6 : CellOfFirst[2][i][1] = "integer" /\ CellOfFirst[2][j][1] = "float"

====
